---- MODULE Spec2Model ----
(***************************************************************************)
(* Model of src/nlp_project/training/training_adv.py: the metric adapter   *)
(* compute_metrics, the trainer builder get_trainer and the __main__ loop  *)
(* over the adversarial fine-tuning configurations.                        *)
(*                                                                         *)
(* Python lists and numpy arrays are sequences; Python's 0-based ids are   *)
(* kept as they are and shifted by one only where a sequence is indexed.   *)
(* Floats are exact rationals [num, den] in lowest terms.                  *)
(***************************************************************************)
EXTENDS Integers, Sequences, FiniteSets, TLC

VARIABLES
    all_labels,        \* module-level label vocabulary (imported global)
    p,                 \* argument of the current compute_metrics call
    pc,                \* "idle" | "called" | "returned" | "raised"
    exc,               \* exception that left compute_metrics, or "none"
    predictions,       \* local: argmax ids, after line 23
    true_predictions,  \* local: decoded predicted tags, after line 28
    true_labels,       \* local: decoded reference tags, after line 32
    ret,               \* returned dict, after line 43
    memo,              \* an earlier call kept for comparison: its p and outcome
    mpc,               \* position of __main__ in the loop body
    ci,                \* index of the current configuration in configs
    trainer,           \* the trainer get_trainer returned: its datasets' columns
                       \* (and, for reference, the columns as loaded)
    log                \* the steps run so far: [run_name, step, ok]

vars == <<all_labels, p, pc, exc, predictions, true_predictions, true_labels,
          ret, memo, mpc, ci, trainer, log>>

metricVars == <<all_labels, p, pc, exc, predictions, true_predictions,
                true_labels, ret, memo>>

mainVars == <<mpc, ci, trainer, log>>

-----------------------------------------------------------------------------
(* Bounds *)

\* Largest number of token positions (batch * sequence_length) of an array.
MaxTokens == 2

-----------------------------------------------------------------------------
(* Values *)

\* A local that is not bound yet.
Unset == "unset"

\* No call is kept for comparison; the name `trainer` is not bound yet.
NoMemo == [set |-> FALSE]

NoTrainer == [built |-> FALSE]

\* label_pad_token_id: positions to ignore carry this reference id.
IGNORE == -100

\* A tag name "B-PER" is kept as its first character and its type, the two
\* parts the evaluator reads; "O" has the type "_" the evaluator gives it.
Tag(t, ty) == [tag |-> t, type |-> ty]

\* nlp_project.utils.all_labels: the ordered id -> tag name list.
Vocabulary == <<Tag("O", "_"), Tag("B", "PER"), Tag("I", "PER")>>

\* Width of a label-score vector: the model is loaded with id2label, one
\* score per vocabulary entry.
num_labels == Len(Vocabulary)

Min(a, b) == IF a <= b THEN a ELSE b

RECURSIVE GCD(_, _)
GCD(a, b) == IF b = 0 THEN a ELSE GCD(b, a % b)

\* The float n / d, d > 0.
Ratio(n, d) == LET g == GCD(n, d) IN [num |-> n \div g, den |-> d \div g]

Zero == [num |-> 0, den |-> 1]

One == [num |-> 1, den |-> 1]

-----------------------------------------------------------------------------
(* Inputs *)

\* Reference ids a label array may hold: the sentinel, the vocabulary's ids,
\* one id past its end and one negative id.
LabelIds == {IGNORE} \cup ((-1) .. Len(Vocabulary))

\* Score vectors of one position: one with a single best label, and ties
\* between the labels from k on (k = 1: every label has the same score).
OneHot(k) == [j \in 1..num_labels |-> IF j = k THEN 1 ELSE 0]

Rising(k) == [j \in 1..num_labels |-> IF j >= k THEN 1 ELSE 0]

ScoreVectors == {OneHot(1)} \cup {Rising(k) : k \in 1..num_labels}

\* (batch, sequence_length) of an array with at most MaxTokens positions.
Shapes ==
    {<<0, 0>>} \cup
    {sh \in (1..MaxTokens) \X (0..MaxTokens) : sh[1] * sh[2] <= MaxTokens}

Arrays(S) == UNION {[1..sh[1] -> [1..sh[2] -> S]] : sh \in Shapes}

\* The (predictions, labels) pairs the trainer may pass.
Inputs == [predictions : Arrays(ScoreVectors), labels : Arrays(LabelIds)]

-----------------------------------------------------------------------------
(* compute_metrics, lines 21-43 *)

\* np.argmax of one score vector: the 0-based index of the first maximum.
RECURSIVE ArgmaxScan(_, _, _)
ArgmaxScan(v, j, best) ==
    IF j > Len(v) THEN best - 1
    ELSE ArgmaxScan(v, j + 1, IF v[j] > v[best] THEN j ELSE best)

\* Variant: np.max in place of np.argmax, the largest score itself.
np_max(v) ==
    CHOOSE x \in {v[j] : j \in 1..Len(v)} : \A j \in 1..Len(v) : v[j] <= x

\* Variant: the index of the last maximum.
np_argmax_last(v) ==
    LET RECURSIVE Scan(_, _)
        Scan(j, best) ==
            IF j > Len(v) THEN best - 1
            ELSE Scan(j + 1, IF v[j] >= v[best] THEN j ELSE best)
    IN Scan(2, 1)

\* np.argmax of one score vector.
np_argmax(v) == ArgmaxScan(v, 2, 1)

\* np.argmax(predictions, axis=2), line 23.
Argmax2(preds) ==
    [b \in 1..Len(preds) |-> [j \in 1..Len(preds[b]) |-> np_argmax(preds[b][j])]]

\* Python's zip: pairs up to the shorter argument.
zip(a, b) == [j \in 1..Min(Len(a), Len(b)) |-> <<a[j], b[j]>>]

\* list[idx] for a Python list: negative indices count from the end.
InRange(list, idx) == idx >= -Len(list) /\ idx < Len(list)

PyGet(list, idx) ==
    IF idx >= 0 THEN list[idx + 1] ELSE list[Len(list) + idx + 1]

\* The condition of both comprehensions: `if l != -100`.
Keep(pl) == pl[2] # IGNORE

\* The (p, l) pairs of one example that pass the filter, in order.
KeptPairs(prediction, label) == SelectSeq(zip(prediction, label), Keep)

\* Variant: the comprehension without its `if l != -100`.
PredictionIds_unfiltered(prediction, label) ==
    [k \in 1..Len(zip(prediction, label)) |-> zip(prediction, label)[k][1]]

\* Inner comprehension of lines 25-28 for one example: ids to decode.
PredictionIds(prediction, label) ==
    [k \in 1..Len(KeptPairs(prediction, label)) |->
        KeptPairs(prediction, label)[k][1]]

\* Inner comprehension of lines 29-32 for one example: ids to decode.
LabelIdsKept(prediction, label) ==
    [k \in 1..Len(KeptPairs(prediction, label)) |->
        KeptPairs(prediction, label)[k][2]]

\* The ids each comprehension decodes, per example of the outer
\* zip(predictions, labels).
AllPredictionIds(preds, labels) ==
    [b \in 1..Min(Len(preds), Len(labels)) |->
        PredictionIds(preds[b], labels[b])]

AllLabelIds(preds, labels) ==
    [b \in 1..Min(Len(preds), Len(labels)) |->
        LabelIdsKept(preds[b], labels[b])]

\* Whether every all_labels[id] of a comprehension succeeds.
Decodes(vocab, ids) ==
    \A b \in 1..Len(ids) : \A k \in 1..Len(ids[b]) : InRange(vocab, ids[b][k])

\* Variant: decoding with ids taken as 1-based.
DecodeAll_shifted(vocab, ids) ==
    [b \in 1..Len(ids) |-> [k \in 1..Len(ids[b]) |-> PyGet(vocab, ids[b][k] - 1)]]

\* The tag names of both comprehensions: all_labels[id] for every id.
DecodeAll(vocab, ids) ==
    [b \in 1..Len(ids) |-> [k \in 1..Len(ids[b]) |-> PyGet(vocab, ids[b][k])]]

-----------------------------------------------------------------------------
(* seqeval.compute, the external evaluator called at lines 34-36 *)

end_of_chunk(prev_tag, tag, prev_type, type) ==
    \/ prev_tag \in {"E", "S"}
    \/ prev_tag = "B" /\ tag \in {"B", "S", "O"}
    \/ prev_tag = "I" /\ tag \in {"B", "S", "O"}
    \/ prev_tag \notin {"O", "."} /\ prev_type # type

start_of_chunk(prev_tag, tag, prev_type, type) ==
    \/ tag \in {"B", "S"}
    \/ prev_tag \in {"E", "S", "O"} /\ tag \in {"E", "I"}
    \/ tag \notin {"O", "."} /\ prev_type # type

\* The evaluator's flattening: every sentence followed by an "O".
RECURSIVE Flatten(_)
Flatten(seqs) ==
    IF seqs = <<>> THEN <<>>
    ELSE Head(seqs) \o <<Tag("O", "_")>> \o Flatten(Tail(seqs))

\* Flattening without the separators, as accuracy_score does.
RECURSIVE Concat(_)
Concat(seqs) ==
    IF seqs = <<>> THEN <<>> ELSE Head(seqs) \o Concat(Tail(seqs))

\* get_entities: the set of (type, start, end) chunks of the tag sequences.
RECURSIVE ChunkScan(_, _, _, _, _)
ChunkScan(seq, i, prev, begin, chunks) ==
    IF i > Len(seq) THEN chunks
    ELSE LET cur == seq[i]
             ended == end_of_chunk(prev.tag, cur.tag, prev.type, cur.type)
             started == start_of_chunk(prev.tag, cur.tag, prev.type, cur.type)
         IN ChunkScan(seq, i + 1, cur,
                      IF started THEN i ELSE begin,
                      IF ended THEN chunks \cup {<<prev.type, begin, i - 1>>}
                      ELSE chunks)

get_entities(seqs) ==
    ChunkScan(Flatten(seqs) \o <<Tag("O", "_")>>, 1, Tag("O", ""), 1, {})

\* _prf_divide with zero_division="warn": 0.0 where the denominator is 0.
prf_divide(n, d) == IF d = 0 THEN Zero ELSE Ratio(n, d)

\* Micro-averaged precision, recall and F1 over the entity chunks.
overall_precision(y_true, y_pred) ==
    prf_divide(Cardinality(get_entities(y_true) \cap get_entities(y_pred)),
               Cardinality(get_entities(y_pred)))

overall_recall(y_true, y_pred) ==
    prf_divide(Cardinality(get_entities(y_true) \cap get_entities(y_pred)),
               Cardinality(get_entities(y_true)))

\* 2 * precision * recall / (precision + recall), the denominator 1 when 0.
overall_f1(y_true, y_pred) ==
    LET pr == overall_precision(y_true, y_pred)
        rc == overall_recall(y_true, y_pred)
        dn == pr.num * rc.den + rc.num * pr.den
    IN IF dn = 0 THEN Zero
       ELSE Ratio(2 * pr.num * rc.num, dn)

\* accuracy_score: nb_correct / nb_true over the flattened tags; Python's
\* division raises ZeroDivisionError when there is no tag at all.
nb_true(y_true) == Len(Concat(y_true))

nb_correct(y_true, y_pred) ==
    Cardinality({k \in 1..Min(Len(Concat(y_true)), Len(Concat(y_pred))) :
                    Concat(y_true)[k] = Concat(y_pred)[k]})

overall_accuracy(y_true, y_pred) ==
    Ratio(nb_correct(y_true, y_pred), nb_true(y_true))

-----------------------------------------------------------------------------
(* The call *)

\* What one call computes from its argument and the vocabulary it reads.
Outcome(vocab, q) ==
    LET am == Argmax2(q.predictions)
        pids == AllPredictionIds(am, q.labels)
        lids == AllLabelIds(am, q.labels)
        tp == DecodeAll(vocab, pids)
        tl == DecodeAll(vocab, lids)
    IN  IF ~Decodes(vocab, pids) THEN
            [pc |-> "raised", exc |-> "IndexError", predictions |-> am,
             true_predictions |-> Unset, true_labels |-> Unset, ret |-> Unset]
        ELSE IF ~Decodes(vocab, lids) THEN
            [pc |-> "raised", exc |-> "IndexError", predictions |-> am,
             true_predictions |-> tp, true_labels |-> Unset, ret |-> Unset]
        ELSE IF nb_true(tl) = 0 THEN
            [pc |-> "raised", exc |-> "ZeroDivisionError", predictions |-> am,
             true_predictions |-> tp, true_labels |-> tl, ret |-> Unset]
        ELSE
            [pc |-> "returned", exc |-> "none", predictions |-> am,
             true_predictions |-> tp, true_labels |-> tl,
             ret |-> [precision |-> overall_precision(tl, tp),
                      recall |-> overall_recall(tl, tp),
                      f1 |-> overall_f1(tl, tp),
                      accuracy |-> overall_accuracy(tl, tp)]]

\* Variant: a call that reorders the list in place.
VocabularyAfter_reversed(vocab) ==
    [k \in 1..Len(vocab) |-> vocab[Len(vocab) + 1 - k]]

\* The vocabulary after a call: compute_metrics only reads all_labels.
VocabularyAfter(vocab) == vocab

\* compute_metrics(p) run to its end: it returns or an exception leaves it.
compute_metrics ==
    /\ pc = "called"
    /\ LET o == Outcome(all_labels, p)
       IN /\ pc' = o.pc
          /\ exc' = o.exc
          /\ predictions' = o.predictions
          /\ true_predictions' = o.true_predictions
          /\ true_labels' = o.true_labels
          /\ ret' = o.ret
    /\ all_labels' = VocabularyAfter(all_labels)
    /\ UNCHANGED <<p, memo, mainVars>>

MainIdle ==
    /\ mpc = "idle"
    /\ ci = 0
    /\ trainer = NoTrainer
    /\ log = <<>>

\* One evaluation: the trainer passes one (predictions, labels) pair.
Init ==
    /\ all_labels = Vocabulary
    /\ p \in Inputs
    /\ pc = "called"
    /\ exc = "none"
    /\ predictions = Unset
    /\ true_predictions = Unset
    /\ true_labels = Unset
    /\ ret = Unset
    /\ memo = NoMemo
    /\ MainIdle

Next == compute_metrics

Spec == Init /\ [][Next]_vars

-----------------------------------------------------------------------------
(* Repeated evaluations: the trainer calls compute_metrics every eval_steps *)

\* One-example, one-token batches: the arguments of the repeated calls.
PureInputs ==
    [predictions : {<<<<v>>>> : v \in ScoreVectors},
     labels : {<<<<l>>>> : l \in LabelIds}]

\* The trainer calls compute_metrics(q); an evaluation follows a call that
\* returned (an exception ends the process).
Invoke(q) ==
    /\ pc \in {"idle", "returned"}
    /\ p' = q
    /\ pc' = "called"
    /\ exc' = "none"
    /\ predictions' = Unset
    /\ true_predictions' = Unset
    /\ true_labels' = Unset
    /\ ret' = Unset
    /\ memo' = IF memo.set
               THEN [memo EXCEPT !.others = memo.others \/ q # memo.p]
               ELSE memo
    /\ UNCHANGED <<all_labels, mainVars>>

\* History for the comparison of two calls: keeps the call that just
\* returned, once, and whether a call on another input was made since.
Remember ==
    /\ pc = "returned"
    /\ ~memo.set
    /\ memo' = [set |-> TRUE, p |-> p, true_predictions |-> true_predictions,
                true_labels |-> true_labels, ret |-> ret, others |-> FALSE]
    /\ UNCHANGED <<all_labels, p, pc, exc, predictions, true_predictions,
                   true_labels, ret, mainVars>>

InitPure ==
    /\ all_labels = Vocabulary
    /\ p = Unset
    /\ pc = "idle"
    /\ exc = "none"
    /\ predictions = Unset
    /\ true_predictions = Unset
    /\ true_labels = Unset
    /\ ret = Unset
    /\ memo = NoMemo
    /\ MainIdle

NextPure ==
    \/ \E q \in PureInputs : Invoke(q)
    \/ compute_metrics
    \/ Remember

SpecPure == InitPure /\ [][NextPure]_vars

-----------------------------------------------------------------------------
(* get_trainer, lines 47-112 *)

\* The two columns the model consumes.
ModelColumns == {"input_ids", "labels"}

\* Other columns a loaded dataset may carry.
OtherColumns == {"tokens", "attention_mask", "offset_mapping"}

\* json_to_Dataset_adv: the column names of a loaded dataset.
LoadedColumns == {ModelColumns \cup X : X \in SUBSET OtherColumns}

\* Lines 93-97: computed from the train dataset's columns alone.
columns_to_remove(train_columns) == train_columns \ ModelColumns

\* Dataset.remove_columns: raises ValueError for a column the dataset lacks.
CanRemove(columns, remove) == remove \subseteq columns

remove_columns(columns, remove) == columns \ remove

-----------------------------------------------------------------------------
(* __main__, lines 116-132 *)

configs ==
    <<[model_name |-> "distilbert-base-uncased", run_name |-> "distilbert1",
       dataset_prefix |-> "distilbert"],
      [model_name |-> "albert-base-v2", run_name |-> "albert1",
       dataset_prefix |-> "albert"]>>

\* The statements of the loop body, in program order.
Body == <<"get_trainer", "train", "save_model", "finish">>

Event(step, ok) == [run_name |-> configs[ci].run_name, step |-> step, ok |-> ok]

\* Variant: the statement is run again.
AfterException_retry(step) == step

\* An exception leaves a statement: nothing catches it, the process ends.
AfterException(step) == "raised"

Raise(step) ==
    /\ mpc' = AfterException(step)
    /\ log' = Append(log, Event(step, FALSE))
    /\ UNCHANGED <<ci, trainer>>

\* Variant: wandb.finish() before trainer.save_model().
StatementAfter_swapped(step) ==
    CASE step = "get_trainer" -> "train"
      [] step = "train" -> "finish"
      [] step = "finish" -> "save_model"
      [] OTHER -> "end"

\* The statement that follows `step` in the loop body.
StatementAfter(step) ==
    CASE step = "get_trainer" -> "train"
      [] step = "train" -> "save_model"
      [] step = "save_model" -> "finish"
      [] OTHER -> "end"

\* The statement finished: on to the next one, the next configuration or
\* the end of the script.
Proceed(step) ==
    /\ log' = Append(log, Event(step, TRUE))
    /\ IF StatementAfter(step) # "end"
       THEN mpc' = StatementAfter(step) /\ ci' = ci
       ELSE IF ci < Len(configs)
            THEN mpc' = "get_trainer" /\ ci' = ci + 1
            ELSE mpc' = "done" /\ ci' = ci

\* trainer = get_trainer(...), lines 123-129.
get_trainer ==
    /\ mpc = "get_trainer"
    /\ \/ \E train_dataset \in LoadedColumns, val_dataset \in LoadedColumns :
            LET remove == columns_to_remove(train_dataset)
            IN  IF CanRemove(val_dataset, remove)
                THEN /\ trainer' =
                            [built |-> TRUE,
                             run_name |-> configs[ci].run_name,
                             train_dataset |->
                                 remove_columns(train_dataset, remove),
                             eval_dataset |->
                                 remove_columns(val_dataset, remove),
                             loaded |-> <<train_dataset, val_dataset>>]
                     /\ Proceed("get_trainer")
                ELSE Raise("get_trainer")
       \/ Raise("get_trainer")
    /\ UNCHANGED metricVars

\* trainer.train(resume_from_checkpoint=False), line 130.
train ==
    /\ mpc = "train"
    /\ \/ Proceed("train") /\ UNCHANGED trainer
       \/ Raise("train")
    /\ UNCHANGED metricVars

\* trainer.save_model(output_dir=...), line 131.
save_model ==
    /\ mpc = "save_model"
    /\ \/ Proceed("save_model") /\ UNCHANGED trainer
       \/ Raise("save_model")
    /\ UNCHANGED metricVars

\* wandb.finish(), line 132.
finish ==
    /\ mpc = "finish"
    /\ \/ Proceed("finish") /\ UNCHANGED trainer
       \/ Raise("finish")
    /\ UNCHANGED metricVars

InitMain ==
    /\ all_labels = Vocabulary
    /\ p = Unset
    /\ pc = "idle"
    /\ exc = "none"
    /\ predictions = Unset
    /\ true_predictions = Unset
    /\ true_labels = Unset
    /\ ret = Unset
    /\ memo = NoMemo
    /\ mpc = "get_trainer"
    /\ ci = 1
    /\ trainer = NoTrainer
    /\ log = <<>>

NextMain == get_trainer \/ train \/ save_model \/ finish

\* The interpreter runs the script's next statement, and every call ends.
SpecMain == InitMain /\ [][NextMain]_vars /\ WF_vars(NextMain)

-----------------------------------------------------------------------------
(* Properties of compute_metrics *)

\* The examples the outer zip pairs.
Examples == 1..Min(Len(p.predictions), Len(p.labels))

\* The positions of example b the inner zip pairs.
Paired(b) == 1..Min(Len(p.predictions[b]), Len(p.labels[b]))

\* The paired positions of example b whose reference id is not the sentinel.
KeptPositions(b) == {j \in Paired(b) : p.labels[b][j] # IGNORE}

\* The place of kept position j among the kept positions of example b.
Rank(b, j) == Cardinality({k \in KeptPositions(b) : k <= j})

\* i is the 0-based index of a largest score of v, the smallest such index.
IsFirstMax(v, i) ==
    /\ i \in 0..(Len(v) - 1)
    /\ \A j \in 1..Len(v) : v[j] <= v[i + 1]
    /\ \A j \in 1..i : v[j] < v[i + 1]

\* Both comprehensions ran to their end.
Decoded == pc = "returned" \/ exc = "ZeroDivisionError"

\* C1: whenever both sequences are decoded, each example's decoded predicted
\* and reference sequences hold exactly its kept positions (the paired
\* positions whose reference id is not -100), in their original order: the
\* k-th decoded reference tag is all_labels[label id] and the k-th decoded
\* predicted tag is all_labels[argmax id] of the k-th kept position.
C1_KeptInOrder ==
    Decoded =>
        /\ Len(true_labels) = Cardinality(Examples)
        /\ Len(true_predictions) = Cardinality(Examples)
        /\ \A b \in Examples :
            /\ Len(true_labels[b]) = Cardinality(KeptPositions(b))
            /\ Len(true_predictions[b]) = Cardinality(KeptPositions(b))
            /\ \A j \in KeptPositions(b) :
                /\ true_labels[b][Rank(b, j)] = PyGet(Vocabulary, p.labels[b][j])
                /\ \E i \in 0..(num_labels - 1) :
                    /\ IsFirstMax(p.predictions[b][j], i)
                    /\ true_predictions[b][Rank(b, j)] = PyGet(Vocabulary, i)

\* C1 witness: a call returned for an example with a sentinel position
\* followed by a kept one, whose tag is decoded first in the sequence.
C1_Witness ==
    /\ pc = "returned"
    /\ \E b \in Examples : \E j \in KeptPositions(b) :
        /\ j > 1
        /\ p.labels[b][j - 1] = IGNORE
        /\ Rank(b, j) = 1
        /\ true_labels[b][1] # true_predictions[b][1]

\* C1 witness, order: a call returned for an example with two kept positions
\* of different reference ids.
C1_WitnessOrder ==
    /\ pc = "returned"
    /\ \E b \in Examples : \E j, k \in KeptPositions(b) :
        j < k /\ p.labels[b][j] # p.labels[b][k]

\* C2: whenever both sequences are decoded, they hold the same number of
\* examples and each example's two sequences have the same length, also
\* when the prediction row and the label row differ in length.
C2_EqualLength ==
    Decoded =>
        /\ Len(true_predictions) = Len(true_labels)
        /\ \A b \in 1..Len(true_labels) :
            Len(true_predictions[b]) = Len(true_labels[b])

\* C2 witness: a call returned on rows of different lengths, with a kept
\* and an ignored position, and on arrays of different batch sizes.
C2_Witness ==
    /\ pc = "returned"
    /\ Len(p.predictions) # Len(p.labels)
    /\ \E b \in Examples :
        /\ Len(p.predictions[b]) # Len(p.labels[b])
        /\ KeptPositions(b) # {}

\* The argmax at every kept position equals the reference id there.
AllKeptMatch ==
    \A b \in Examples : \A j \in KeptPositions(b) :
        IsFirstMax(p.predictions[b][j], p.labels[b][j])

\* Some kept reference id decodes to a tag other than "O".
SomeEntityTag ==
    \E b \in Examples : \E j \in KeptPositions(b) :
        /\ InRange(Vocabulary, p.labels[b][j])
        /\ PyGet(Vocabulary, p.labels[b][j]).tag # "O"

AllOne ==
    /\ ret.precision = One
    /\ ret.recall = One
    /\ ret.f1 = One
    /\ ret.accuracy = One

\* C3 as stated: whenever the argmax at every kept position equals the
\* reference id, the returned precision, recall, f1 and accuracy are 1.0.
C3_AllMatchAllOne == (pc = "returned" /\ AllKeptMatch) => AllOne

\* C3 amended: when compute_metrics returns, the argmax at every kept
\* position equals the reference id and some kept reference tag is not "O",
\* precision, recall, f1 and accuracy are all 1.0; when every kept reference
\* tag is "O", accuracy is 1.0 and precision, recall and f1 are 0.0.
C3_AllMatchWithEntity ==
    (pc = "returned" /\ AllKeptMatch) =>
        IF SomeEntityTag THEN AllOne
        ELSE /\ ret.accuracy = One
             /\ ret.precision = Zero
             /\ ret.recall = Zero
             /\ ret.f1 = Zero

\* C3 witness: a returned call with every kept position matching and an
\* entity tag among the references.
C3_Witness == pc = "returned" /\ AllKeptMatch /\ SomeEntityTag /\ AllOne

\* C4: a call with a kept reference id, or a predicted id at a kept
\* position, outside 0..len(all_labels)-1 ends in an error.
C4_OutOfRangeRaises ==
    (/\ pc # "called"
     /\ \E b \in Examples : \E j \in KeptPositions(b) :
            \/ p.labels[b][j] \notin 0..(Len(Vocabulary) - 1)
            \/ predictions[b][j] \notin 0..(Len(Vocabulary) - 1))
        => pc = "raised"

\* Example b has positions, and every one of them is the sentinel.
FullyMasked(b) ==
    /\ Len(p.labels[b]) >= 1
    /\ Len(p.predictions[b]) = Len(p.labels[b])
    /\ \A j \in 1..Len(p.labels[b]) : p.labels[b][j] = IGNORE

\* Every id the comprehensions decode is a vocabulary id.
AllIdsInVocabulary ==
    \A b \in Examples : \A j \in KeptPositions(b) :
        p.labels[b][j] \in 0..(Len(Vocabulary) - 1)

\* C5: a call on a batch with a fully masked example, all ids being
\* vocabulary ids, returns, and that example's decoded pair is empty.
C5_MaskedExampleNoError ==
    (/\ pc # "called"
     /\ AllIdsInVocabulary
     /\ \E b \in Examples : FullyMasked(b))
        => /\ pc = "returned"
           /\ \A b \in Examples :
                FullyMasked(b) =>
                    true_predictions[b] = <<>> /\ true_labels[b] = <<>>

\* C5, the part that holds: beside an example with a kept position, a fully
\* masked example decodes to an empty pair and the call returns.
C5_MaskedBesideKept ==
    (/\ pc # "called"
     /\ AllIdsInVocabulary
     /\ \E b \in Examples : FullyMasked(b)
     /\ \E b \in Examples : KeptPositions(b) # {})
        => /\ pc = "returned"
           /\ \A b \in Examples :
                FullyMasked(b) =>
                    true_predictions[b] = <<>> /\ true_labels[b] = <<>>

\* C10: after line 23 the predicted id of every position is an index of a
\* largest score of that position, the smallest such index, and lies in
\* 0..num_labels-1.
C10_ArgmaxFirstMax ==
    pc \in {"returned", "raised"} =>
        /\ Len(predictions) = Len(p.predictions)
        /\ \A b \in 1..Len(p.predictions) :
            /\ Len(predictions[b]) = Len(p.predictions[b])
            /\ \A j \in 1..Len(p.predictions[b]) :
                /\ predictions[b][j] \in 0..(num_labels - 1)
                /\ IsFirstMax(p.predictions[b][j], predictions[b][j])

\* C10 witness: a call that took the argmax of a position whose largest
\* score is shared by two labels that are not the first.
C10_Witness ==
    /\ pc \in {"returned", "raised"}
    /\ \E b \in 1..Len(p.predictions) : \E j \in 1..Len(p.predictions[b]) :
        /\ p.predictions[b][j] = Rising(2)
        /\ predictions[b][j] = 1

-----------------------------------------------------------------------------
(* Properties of repeated calls *)

-----------------------------------------------------------------------------
(* Properties of get_trainer and __main__ *)

\* C7: every trainer get_trainer returns holds a train dataset and a
\* validation dataset whose columns are exactly input_ids and labels.
C7_ExactlyModelColumns ==
    trainer.built =>
        /\ trainer.train_dataset = ModelColumns
        /\ trainer.eval_dataset = ModelColumns

\* The steps of a run in which nothing fails, in order.
ExpectedLog ==
    [k \in 1..(Len(configs) * Len(Body)) |->
        [run_name |-> configs[((k - 1) \div Len(Body)) + 1].run_name,
         step |-> Body[((k - 1) % Len(Body)) + 1],
         ok |-> TRUE]]

IsPrefix(s, t) == Len(s) <= Len(t) /\ \A k \in 1..Len(s) : s[k] = t[k]

\* The steps that finished without an exception.
Completed == SelectSeq(log, LAMBDA e : e.ok)

Failed == \E k \in 1..Len(log) : ~log[k].ok

\* C8: the steps that finish are always an initial part of: build trainer,
\* train, save model, finalize the tracking run for distilbert1, then the
\* same for albert1, each once; the statement being run is the one that
\* follows the steps finished so far, for the configuration they have
\* reached; the script ends only after all of them; and every run either
\* has a step fail or reaches that end.
C8_InOrder ==
    /\ [](IsPrefix(Completed, ExpectedLog))
    /\ [](mpc \in {"get_trainer", "train", "save_model", "finish"} =>
            /\ log = Completed
            /\ ci = (Len(log) \div Len(Body)) + 1
            /\ mpc = Body[(Len(log) % Len(Body)) + 1])
    /\ [](mpc = "done" => log = ExpectedLog)
    /\ <>(Failed \/ (mpc = "done" /\ log = ExpectedLog))

\* C8 witness: the script ended with both configurations trained, saved and
\* finalized.
C8_Witness == mpc = "done" /\ log = ExpectedLog

\* C9: once a step has failed the process is over: the failed step is the
\* last thing that happened, and no step, of this or a later configuration,
\* runs or is retried after it.
C9_FailStop ==
    /\ [](Failed => /\ mpc = "raised"
                    /\ ~log[Len(log)].ok
                    /\ IsPrefix(SubSeq(log, 1, Len(log) - 1), ExpectedLog))
    /\ [][Failed => UNCHANGED <<mpc, ci, trainer, log>>]_vars

\* C9 witness: training the first configuration failed; its model is not
\* saved, its tracking run not finalized, the second configuration not begun.
C9_Witness ==
    /\ mpc = "raised"
    /\ ci = 1
    /\ Len(log) = 2
    /\ log[2].step = "train"
    /\ ~log[2].ok

====
